---- MODULE Spec2Model ----
(***************************************************************************)
(* A model of threestudio/systems/dynamic_gaussian_instruct.py: the        *)
(* system DynamicGaussianSplattingInstruct, its edit cache (edit_frames,   *)
(* edit_patches, edit_json and the manifest edit.json), the patch          *)
(* selection get_patch and the statement order of training_step,           *)
(* validation_step and test_step.                                          *)
(*                                                                         *)
(* A handler is a chain of actions, one per collaborator call or block of  *)
(* straight-line statements; pc names the statement that runs next.  The   *)
(* step loop is single threaded: while pc is not "idle" only the next      *)
(* statement of the running handler is enabled.  An exception raised in a  *)
(* handler is not caught anywhere in the file, so it ends the run          *)
(* (pc = "aborted").                                                       *)
(*                                                                         *)
(* Tensors are abstract: an image is the record of where it came from.     *)
(* The collaborators (renderer, guidance, geometry, optimizers, losses)    *)
(* are calls that either return or raise; their internal state (learning   *)
(* rates, point clouds) is not modelled beyond a version counter per       *)
(* optimized parameter group.                                              *)
(***************************************************************************)
EXTENDS Integers, Sequences, FiniteSets, TLC

\* ------------------------------------------------------------------ bounds
MaxFrame == 1      \* frame indices are 0..MaxFrame
MaxDim == 3        \* frames are at most MaxDim x MaxDim pixels
MaxStep == 3       \* a step starts only while global_step < MaxStep
MaxInterval == 2   \* cfg.per_editing_step is in 0..MaxInterval
MaxLevel == 2      \* a pixel value is v / MaxLevel with v in 0..MaxLevel

Frames == 0..MaxFrame
Dims == 1..MaxDim
\* the patch of a run is smaller than its frames: the smallest, the largest
PatchSizes == {1, MaxDim - 1}
\* cfg.start_editing_step: editing from the first step on, or later
StartSteps == {0, 1}
\* what the trainer adds to global_step in one training step: one per batch,
\* or one per optimizer stepped
Advances == {1, 3}

VARIABLES
    cfg,                \* Config: per_editing_step, start_editing_step, get_patch_size
    prior_json,         \* edit.json under cfg.edit_path; NoFile when edit_path = ""
    global_step,        \* the trainer's step counter, read by the handlers
    edit_frames,        \* self.edit_frames: frame index -> edited image
    edit_patches,       \* self.edit_patches: frame index -> <<patch_x, patch_y>>
    edit_json,          \* self.edit_json: frame index -> [file_path, patches]
    saved_json,         \* edit.json under get_save_path("edit"), as last dumped
    saved_imgs,         \* the image files under get_save_path("edit")
    renderer_training,  \* self.renderer.training (train() / eval())
    params,             \* version of each optimized parameter group
    pc,                 \* next statement of the running handler, or "idle"
    error,              \* the exception that ended the run, or "none"
    trace,              \* the collaborator calls of the running handler, in order
    batch,              \* the batch dict of the running handler
    gt_rgb,             \* local gt_rgb of training_step (line 341)
    origin_gt_rgb,      \* batch["gt_rgb"] after the splice of line 345
    gt_patch,           \* locals gt_patch_x, gt_patch_y (line 346)
    full_out,           \* local full_out: the auxiliary render of line 278
    guidance_input,     \* local guidance_input (lines 281-316)
    out,                \* local out: the render package of line 348
    guidance_out,       \* the loss terms of lines 356-390
    loss_D,             \* local loss_D (lines 424-429)
    grid                \* the images handed to save_image_grid

cacheVars == <<edit_frames, edit_patches, edit_json>>
diskVars == <<saved_json, saved_imgs>>
localVars == <<batch, gt_rgb, origin_gt_rgb, gt_patch, full_out, guidance_input, out,
               guidance_out, loss_D, grid>>
vars == <<cfg, prior_json, global_step, edit_frames, edit_patches, edit_json,
          saved_json, saved_imgs, renderer_training, params, pc, error, trace,
          batch, gt_rgb, origin_gt_rgb, gt_patch, full_out, guidance_input, out,
          guidance_out, loss_D, grid>>

\* ------------------------------------------------------------ python values
Max(a, b) == IF a >= b THEN a ELSE b
Min(a, b) == IF a <= b THEN a ELSE b

\* int(v) of the float v = v2 / 2: truncation toward zero.
IntOfHalves(v2) == IF v2 >= 0 THEN v2 \div 2 ELSE -((-v2) \div 2)

\* A dict as a function on its key set.
EmptyDict == [k \in {} |-> 0]
Put(d, k, v) == (k :> v) @@ d

\* JSON object keys are strings: json.dump writes the int key i as str(i),
\* and configure reads it back with int(key).
Str(i) == ToString(i)
IntKey(key) == CHOOSE i \in 0..(MaxFrame + 1) : ToString(i) = key

\* "%05d.jpg" % batch_index
FileName(i) ==
    (IF i < 10 THEN "0000" ELSE IF i < 100 THEN "000" ELSE "00") \o ToString(i) \o ".jpg"

NoFile == [k \in {"<absent>"} |-> 0]
\* An image is where it came from, its <<rows, columns>> and, for an edit,
\* the patch of the frame it is an edit of.
NoSize == <<0, 0>>
NoPatch == <<>>
NoImg == [src |-> "none", step |-> 0, size |-> NoSize, patch |-> NoPatch]
NoMask == <<>>
NoBatch == [index |-> -1, H |-> 0, W |-> 0, patch_x |-> 0, patch_y |-> 0, patch_S |-> 0,
            frame_mask |-> NoMask, gt_row |-> <<>>, proj |-> <<>>]
NoFullOut == [refine |-> <<>>, training |-> FALSE]
NoInput == [channels |-> 0, size |-> NoSize, rgb |-> <<>>, rgb_den |-> 1,
            alpha |-> <<>>, alpha_den |-> 1]
NoOut == [refine |-> -1, training |-> FALSE, FoVx |-> <<>>, FoVy |-> <<>>]
NoLosses == [G_target |-> NoImg, l1_target |-> NoImg, refine |-> -1]
NoLossD == [target |-> NoImg, refine |-> -1]
NoGrid == <<>>

\* ----------------------------------------------------------------- get_patch
\* A bounding box <<x1, y1, x2, y2>> lying inside an h x w frame.
Spans(n) == {s \in (0..n) \X (0..n) : s[1] < s[2]}
BoxesIn(h, w) == {<<sx[1], sy[1], sx[2], sy[2]>> : sx \in Spans(w), sy \in Spans(h)}
NoBBox == <<>>

\* int(min(max(0, center - S // 2), lim - S - 1)) with center = c2 / 2
ClampCorner(c2, S, lim) ==
    IntOfHalves(Min(Max(0, c2 - 2 * (S \div 2)), 2 * (lim - S - 1)))

get_patch(h, w, S, bbox) ==
    IF bbox # NoBBox
    THEN [patch_x |-> ClampCorner(bbox[1] + bbox[3], S, w),
          patch_y |-> ClampCorner(bbox[2] + bbox[4], S, h),
          patch_S |-> S]
    ELSE [patch_x |-> (w \div 2) - (S \div 2),
          patch_y |-> (h \div 2) - (S \div 2),
          patch_S |-> S]

\* ---------------------------------------------------------------- configure
\* The manifests a prior run can have left under cfg.edit_path: one record
\* per edited frame, keyed by the stringified frame index.
PriorPatches == {<<0, 0>>}
ManifestsOver(K) ==
    [{Str(i) : i \in K} -> [file_path : {FileName(i) : i \in K}, patches : PriorPatches]]
PriorManifests ==
    UNION {{m \in ManifestsOver(K) : \A k \in DOMAIN m : m[k].file_path = FileName(IntKey(k))}
           : K \in SUBSET Frames}

\* cv2.imread of the file a manifest record names (lines 161-164)
ImRead(file_path) == [src |-> "file", step |-> 0, size |-> NoSize, patch |-> NoPatch]

\* mutant: the loop skips the key of frame 0
LoadedKeysSkipZero(manifest) ==
    IF manifest = NoFile THEN {} ELSE {IntKey(k) : k \in DOMAIN manifest} \ {0}

\* lines 156-166: the dicts after the loop over the manifest's keys
LoadedKeys(manifest) == IF manifest = NoFile THEN {} ELSE {IntKey(k) : k \in DOMAIN manifest}
LoadedFrames(manifest) ==
    [i \in LoadedKeys(manifest) |-> ImRead(manifest[Str(i)].file_path)]
\* mutant: the coordinates of a record are read as [patch_y, patch_x]
LoadedPatchesSwapped(manifest) ==
    [i \in LoadedKeys(manifest) |->
        <<manifest[Str(i)].patches[2], manifest[Str(i)].patches[1]>>]

LoadedPatches(manifest) ==
    [i \in LoadedKeys(manifest) |-> manifest[Str(i)].patches]

Configs ==
    [per_editing_step : 0..MaxInterval,
     start_editing_step : StartSteps,
     get_patch_size : PatchSizes]

\* a run of masked edits: editing is off, or on at every step from the first
EditConfigs ==
    [per_editing_step : {0, 1}, start_editing_step : {0}, get_patch_size : PatchSizes]

\* a run that is resumed: editing from the first step on, at the longest
\* interval
ResumeConfigs ==
    [per_editing_step : {MaxInterval}, start_editing_step : {0},
     get_patch_size : PatchSizes]

\* the compositor alone: the patch is the whole frame
ComposeConfigs ==
    [per_editing_step : {0}, start_editing_step : {0}, get_patch_size : {MaxDim - 1}]

\* get_patch alone reads only get_patch_size, of any size a frame can hold
PatchConfigs ==
    [per_editing_step : {0}, start_editing_step : {0}, get_patch_size : Dims]

InitWith(configs) ==
    /\ cfg \in configs
    /\ prior_json \in {NoFile} \cup PriorManifests
    /\ edit_frames = LoadedFrames(prior_json)
    /\ edit_patches = LoadedPatches(prior_json)
    /\ edit_json = EmptyDict
    /\ saved_json = NoFile
    /\ saved_imgs = EmptyDict
    /\ global_step = 0
    /\ renderer_training = TRUE
    /\ params = [geometry |-> 0, generator |-> 0, discriminator |-> 0]
    /\ pc = "idle"
    /\ error = "none"
    /\ trace = <<>>
    /\ batch = NoBatch
    /\ gt_rgb = NoImg
    /\ origin_gt_rgb = [img |-> NoImg, splice |-> NoPatch]
    /\ gt_patch = NoPatch
    /\ full_out = NoFullOut
    /\ guidance_input = NoInput
    /\ out = NoOut
    /\ guidance_out = NoLosses
    /\ loss_D = NoLossD
    /\ grid = NoGrid

Init == InitWith(Configs)
InitEdit == InitWith(EditConfigs)
InitResume == InitWith(ResumeConfigs) /\ prior_json = NoFile
InitCompose == InitWith(ComposeConfigs) /\ prior_json = NoFile
InitPatch == InitWith(PatchConfigs)

\* ------------------------------------------------------------------- getFOV
\* The focal terms <<P[0, 0], P[1, 1]>> of batch["proj"][0], a float tensor.
UnitProj == <<1, 1>>
Focals == 0..MaxLevel

\* a / b of two floats of a tensor, a > 0: inf when b is 0, no exception
TensorDiv(a, b) == IF b = 0 THEN "inf" ELSE <<a, b>>

\* lines 53-60: tanHalfFov = (znear / P) / znear, in units of znear, and
\* fov = 2 * atan(tanHalfFov), which is pi for inf.  Nothing here raises.
getFOV(P) ==
    [fovX |-> [two_atan |-> TensorDiv(1, P[1])],
     fovY |-> [two_atan |-> TensorDiv(1, P[2])]]

\* ------------------------------------------------------------ the batch dict
\* The batches the data loader can hand to a step: a frame index, a frame of
\* h x w pixels, an optional bounding box inside the frame.
BatchesOf(h, w) ==
    {[index |-> i, H |-> h, W |-> w, bbox |-> b, frame_mask |-> NoMask,
      gt_row |-> [k \in 1..w |-> 0], proj |-> UnitProj] :
        i \in Frames, b \in {NoBBox} \cup BoxesIn(h, w)}
AllBatches == UNION {BatchesOf(d[1], d[2]) : d \in Dims \X Dims}
\* The frames of a run are MaxDim x MaxDim; a frame's box is its top left
\* pixel, its top right pixel or the whole frame.
RunBoxes(h, w) == {<<0, 0, 1, 1>>, <<w - 1, 0, w, 1>>, <<0, 0, w, h>>}
\* A frame of a run is black and has no mask.
BatchInputs ==
    {[index |-> i, H |-> MaxDim, W |-> MaxDim, bbox |-> b, frame_mask |-> NoMask,
      gt_row |-> [k \in 1..MaxDim |-> 0], proj |-> UnitProj] :
        i \in Frames, b \in {NoBBox} \cup RunBoxes(MaxDim, MaxDim)}
\* The frames of a run of masked edits: a frame has no box or is all box; its
\* mask, when it has one, covers it all.
EditBatches ==
    {[index |-> i, H |-> MaxDim, W |-> MaxDim, bbox |-> b, frame_mask |-> m,
      gt_row |-> [k \in 1..MaxDim |-> 0], proj |-> UnitProj] :
        i \in Frames, b \in {NoBBox, <<0, 0, MaxDim, MaxDim>>},
        m \in {NoMask, [k \in 1..MaxDim |-> MaxLevel]}}
\* the frame holds a patch of the configured size
ValidBatch(b) == cfg.get_patch_size <= Min(b.H, b.W)

\* batch after batch = self.get_patch(batch)
Patched(b) ==
    LET p == get_patch(b.H, b.W, cfg.get_patch_size, b.bbox)
    IN  [index |-> b.index, H |-> b.H, W |-> b.W,
         patch_x |-> p.patch_x, patch_y |-> p.patch_y, patch_S |-> p.patch_S,
         frame_mask |-> b.frame_mask, gt_row |-> b.gt_row, proj |-> b.proj]

\* The handler's locals and batch die with the handler.
ClearFrame ==
    /\ batch' = NoBatch
    /\ gt_rgb' = NoImg
    /\ origin_gt_rgb' = [img |-> NoImg, splice |-> NoPatch]
    /\ gt_patch' = NoPatch
    /\ full_out' = NoFullOut
    /\ guidance_input' = NoInput
    /\ out' = NoOut
    /\ guidance_out' = NoLosses
    /\ loss_D' = NoLossD
    /\ grid' = NoGrid

\* an exception leaves the handler: nothing in the file catches it
Raise(e) ==
    /\ pc' = "aborted"
    /\ error' = e
    /\ ClearFrame

\* ------------------------------------------------------------ training_step
\* lines 268-271: editing is enabled and has started
EditingActive(t) ==
    /\ cfg.per_editing_step > 0
    /\ t >= cfg.start_editing_step

\* mutant: an edited frame is never refreshed
NeedsEditOnlyMissing(i, t) == i \notin DOMAIN edit_frames

\* mutant: a frame is edited only at a refresh step, also when it has no entry
NeedsEditOnlyRefresh(i, t) == t % cfg.per_editing_step = 0

\* lines 273-276: the frame is edited in this step
NeedsEdit(i, t) ==
    \/ i \notin DOMAIN edit_frames
    \/ t % cfg.per_editing_step = 0

\* lines 255-277: read the batch, select the patch, decide whether to edit.
training_step(b) ==
    /\ pc = "idle"
    /\ global_step < MaxStep
    /\ ValidBatch(b)
    /\ batch' = Patched(b)
    /\ IF EditingActive(global_step)
       THEN IF NeedsEdit(b.index, global_step)
            THEN /\ renderer_training' = FALSE
                 /\ trace' = <<"prompt_processor", "renderer.eval">>
                 /\ pc' = "forward_aux"
            ELSE /\ trace' = <<"prompt_processor">>
                 /\ pc' = "fetch"
                 /\ UNCHANGED renderer_training
       ELSE /\ trace' = <<>>
            /\ pc' = "fetch"
            /\ UNCHANGED renderer_training
    /\ UNCHANGED <<cfg, prior_json, global_step, cacheVars, diskVars, params, error,
                   gt_rgb, origin_gt_rgb, gt_patch, full_out, guidance_input, out,
                   guidance_out, loss_D, grid>>

\* --------------------------------------------------------- the guidance input
\* A row of a tensor is a sequence of numerators over one denominator; the
\* three colour channels are treated alike and stand as one.
Values == 0..MaxLevel
Rows(n) == [1..n -> Values]

\* s[a:b] of a python sequence, and its length
PySliceBound(n, a) == IF a < 0 THEN Max(0, n + a) ELSE Min(a, n)
PySlice(s, a, b) ==
    LET lo == PySliceBound(Len(s), a)
        hi == PySliceBound(Len(s), b)
    IN  IF hi > lo THEN SubSeq(s, lo + 1, hi) ELSE <<>>
SliceLen(n, a, b) == Max(0, PySliceBound(n, b) - PySliceBound(n, a))

\* torch.nn.functional.interpolate(x, (m, m), mode="bilinear") along a row:
\* output j reads the source position (j + 1/2) * n / m - 1/2, not below 0,
\* and weighs its two neighbours.  The result is in numerators over 2 * m
\* times the denominator of x.
Interpolate(x, m) ==
    LET n == Len(x)
        src(j) == Max(0, (2 * j + 1) * n - m)
        lo(j) == src(j) \div (2 * m)
        hi(j) == Min(lo(j) + 1, n - 1)
        w(j) == src(j) % (2 * m)
    IN  [k \in 1..m |->
            x[lo(k - 1) + 1] * (2 * m - w(k - 1)) + x[hi(k - 1) + 1] * w(k - 1)]

\* mutant: the mask weighs the original patch and its complement the refined
ComposeMaskedSwapped(b, refine) ==
    LET R == Len(refine)
        D == 2 * R * MaxLevel
        px == b.patch_x
        S == b.patch_S
        mask == Interpolate(PySlice(b.frame_mask, px, px + S), R)
        origin == Interpolate(PySlice(b.gt_row, px, px + S), R)
    IN  [channels |-> 4, size |-> <<R, R>>,
         rgb |-> [k \in 1..R |-> refine[k] * 2 * R * (D - mask[k]) + origin[k] * mask[k]],
         rgb_den |-> D * D,
         alpha |-> [k \in 1..R |-> D - mask[k]],
         alpha_den |-> D]

\* lines 282-308: refine * mask + origin * (1 - mask), and 1 - mask as the
\* fourth channel, at the resolution of the refined output
ComposeMasked(b, refine) ==
    LET R == Len(refine)
        D == 2 * R * MaxLevel
        px == b.patch_x
        S == b.patch_S
        mask == Interpolate(PySlice(b.frame_mask, px, px + S), R)
        origin == Interpolate(PySlice(b.gt_row, px, px + S), R)
    IN  [channels |-> 4, size |-> <<R, R>>,
         rgb |-> [k \in 1..R |-> refine[k] * 2 * R * mask[k] + origin[k] * (D - mask[k])],
         rgb_den |-> D * D,
         alpha |-> [k \in 1..R |-> D - mask[k]],
         alpha_den |-> D]

\* lines 310-316: the refined output, cut at patch_y : patch_y + S and
\* patch_x : patch_x + S
ComposeUnmasked(b, refine) ==
    LET R == Len(refine)
    IN  [channels |-> 3,
         size |-> <<SliceLen(R, b.patch_y, b.patch_y + b.patch_S),
                    SliceLen(R, b.patch_x, b.patch_x + b.patch_S)>>,
         rgb |-> PySlice(refine, b.patch_x, b.patch_x + b.patch_S),
         rgb_den |-> MaxLevel,
         alpha |-> <<>>,
         alpha_den |-> 1]

\* lines 280-316: guidance_input of the patched batch b and full_out["refine"]
Compose(b, refine) ==
    IF b.frame_mask # NoMask THEN ComposeMasked(b, refine) ELSE ComposeUnmasked(b, refine)

\* full_out["refine"]: a white row of refine_size pixels, d more than the
\* patch size.  In a run refine_size is the patch size; in a run of masked
\* edits it is the patch size or one more.
RefineOutput(d) == [k \in 1..(cfg.get_patch_size + d) |-> MaxLevel]
RefineExcess == {0}
EditRefineExcess == {0, 1}

\* mutant: the renderer is not switched back to training mode
forward_aux_stays_eval(refine) ==
    /\ pc = "forward_aux"
    /\ full_out' = [refine |-> refine, training |-> renderer_training]
    /\ guidance_input' = Compose(batch, refine)
    /\ trace' = trace \o <<"forward">>
    /\ pc' = "guidance"
    /\ UNCHANGED <<cfg, prior_json, global_step, cacheVars, diskVars, params, error,
                   renderer_training,
                   batch, gt_rgb, origin_gt_rgb, gt_patch, out, guidance_out, loss_D, grid>>

\* lines 278-316: the auxiliary render returns; the renderer goes back to
\* training mode and the guidance input is composed.
forward_aux(refine) ==
    /\ pc = "forward_aux"
    /\ full_out' = [refine |-> refine, training |-> renderer_training]
    /\ guidance_input' = Compose(batch, refine)
    /\ trace' = trace \o <<"forward", "renderer.train">>
    /\ renderer_training' = TRUE
    /\ pc' = "guidance"
    /\ UNCHANGED <<cfg, prior_json, global_step, cacheVars, diskVars, params, error,
                   batch, gt_rgb, origin_gt_rgb, gt_patch, out, guidance_out, loss_D, grid>>

\* line 278: the auxiliary render raises
forward_aux_raises ==
    /\ pc = "forward_aux"
    /\ trace' = trace \o <<"forward">>
    /\ Raise("render")
    /\ UNCHANGED <<cfg, prior_json, global_step, cacheVars, diskVars, params,
                   renderer_training>>

\* torch.nn.functional.interpolate(img, (h, w)) of an image
Resize(img, h, w) == [img EXCEPT !.size = <<h, w>>]

\* the guidance model returns its edit at the resolution of the input it
\* was given
GuidanceSize(input) == input.size

\* result["edit_images"].detach().cpu() of the guidance call of step t, made
\* on the original patch at patch_x, patch_y (lines 317-322)
EditImage(t) ==
    [src |-> "guidance", step |-> t, size |-> GuidanceSize(guidance_input),
     patch |-> <<batch.patch_x, batch.patch_y>>]

\* json.dump(self.edit_json, ...): int keys are written as strings
JsonDump(d) == [k \in {Str(i) : i \in DOMAIN d} |-> d[IntKey(k)]]

\* mutant: the patch of a frame is recorded with its first edit only
guidance_keeps_first_patch ==
    /\ pc = "guidance"
    /\ LET i == batch.index
           patch == IF i \in DOMAIN edit_patches THEN edit_patches[i]
                    ELSE <<batch.patch_x, batch.patch_y>>
           json == Put(edit_json, i, [file_path |-> FileName(i), patches |-> patch])
       IN  /\ edit_frames' = Put(edit_frames, i, EditImage(global_step))
           /\ edit_patches' = Put(edit_patches, i, patch)
           /\ edit_json' = json
           /\ saved_imgs' = Put(saved_imgs, FileName(i), EditImage(global_step))
           /\ saved_json' = JsonDump(json)
    /\ trace' = trace \o <<"guidance", "record", "json.dump">>
    /\ pc' = "fetch"
    /\ UNCHANGED <<cfg, prior_json, global_step, params, renderer_training, error,
                   localVars>>

\* mutant: the edit is resized to the patch size before it is recorded
guidance_resizes ==
    /\ pc = "guidance"
    /\ LET i == batch.index
           patch == <<batch.patch_x, batch.patch_y>>
           img == Resize(EditImage(global_step), batch.patch_S, batch.patch_S)
           json == Put(edit_json, i, [file_path |-> FileName(i), patches |-> patch])
       IN  /\ edit_frames' = Put(edit_frames, i, img)
           /\ edit_patches' = Put(edit_patches, i, patch)
           /\ edit_json' = json
           /\ saved_imgs' = Put(saved_imgs, FileName(i), img)
           /\ saved_json' = JsonDump(json)
    /\ trace' = trace \o <<"guidance", "record", "json.dump">>
    /\ pc' = "fetch"
    /\ UNCHANGED <<cfg, prior_json, global_step, params, renderer_training, error,
                   localVars>>

\* lines 317-339: the guidance call returns; the edit is recorded in the
\* three dicts, the image file and the manifest.
guidance ==
    /\ pc = "guidance"
    /\ LET i == batch.index
           patch == <<batch.patch_x, batch.patch_y>>
           json == Put(edit_json, i, [file_path |-> FileName(i), patches |-> patch])
       IN  /\ edit_frames' = Put(edit_frames, i, EditImage(global_step))
           /\ edit_patches' = Put(edit_patches, i, patch)
           /\ edit_json' = json
           /\ saved_imgs' = Put(saved_imgs, FileName(i), EditImage(global_step))
           /\ saved_json' = JsonDump(json)
    /\ trace' = trace \o <<"guidance", "record", "json.dump">>
    /\ pc' = "fetch"
    /\ UNCHANGED <<cfg, prior_json, global_step, params, renderer_training, error,
                   localVars>>

\* mutant: the patch is recorded before the guidance call is made
guidance_raises_patch_recorded ==
    /\ pc = "guidance"
    /\ edit_patches' = Put(edit_patches, batch.index, <<batch.patch_x, batch.patch_y>>)
    /\ trace' = trace \o <<"guidance">>
    /\ Raise("guidance")
    /\ UNCHANGED <<cfg, prior_json, global_step, edit_frames, edit_json, diskVars, params,
                   renderer_training>>

\* line 317: the guidance call raises
guidance_raises ==
    /\ pc = "guidance"
    /\ trace' = trace \o <<"guidance">>
    /\ Raise("guidance")
    /\ UNCHANGED <<cfg, prior_json, global_step, cacheVars, diskVars, params,
                   renderer_training>>

\* mutant: the splice position is written back into the cache
fetch_writes_patch ==
    /\ pc = "fetch"
    /\ batch.index \in DOMAIN edit_frames
    /\ batch.index \in DOMAIN edit_patches
    /\ gt_rgb' = edit_frames[batch.index]
    /\ origin_gt_rgb' = [img |-> Resize(edit_frames[batch.index], batch.patch_S, batch.patch_S),
                         splice |-> <<batch.patch_x, batch.patch_y>>]
    /\ gt_patch' = edit_patches[batch.index]
    /\ edit_patches' = Put(edit_patches, batch.index, <<batch.patch_x, batch.patch_y>>)
    /\ trace' = trace \o <<"fetch">>
    /\ pc' = "forward"
    /\ UNCHANGED <<cfg, prior_json, global_step, edit_frames, edit_json, diskVars, params,
                   renderer_training, error, batch, full_out, guidance_input, out,
                   guidance_out, loss_D, grid>>

\* lines 341-346: read the frame's cached image, splice it into the ground
\* truth at this step's patch_x, patch_y, read the frame's cached patch.
fetch ==
    /\ pc = "fetch"
    /\ batch.index \in DOMAIN edit_frames
    /\ batch.index \in DOMAIN edit_patches
    /\ gt_rgb' = edit_frames[batch.index]
    /\ origin_gt_rgb' = [img |-> Resize(edit_frames[batch.index], batch.patch_S, batch.patch_S),
                         splice |-> <<batch.patch_x, batch.patch_y>>]
    /\ gt_patch' = edit_patches[batch.index]
    /\ trace' = trace \o <<"fetch">>
    /\ pc' = "forward"
    /\ UNCHANGED <<cfg, prior_json, global_step, cacheVars, diskVars, params,
                   renderer_training, error, batch, full_out, guidance_input, out,
                   guidance_out, loss_D, grid>>

\* lines 341, 346: the dict lookup of a missing key raises KeyError
fetch_raises ==
    /\ pc = "fetch"
    /\ \/ batch.index \notin DOMAIN edit_frames
       \/ batch.index \notin DOMAIN edit_patches
    /\ trace' = trace \o <<"fetch">>
    /\ Raise("KeyError")
    /\ UNCHANGED <<cfg, prior_json, global_step, cacheVars, diskVars, params,
                   renderer_training>>

\* self(batch), lines 175-213: the camera of the batch, and the render package
\* of the current parameters seen from it
Render(b) ==
    [refine |-> params.generator, training |-> renderer_training,
     FoVx |-> getFOV(b.proj).fovX, FoVy |-> getFOV(b.proj).fovY]

\* line 348: the training render returns
forward ==
    /\ pc = "forward"
    /\ out' = Render(batch)
    /\ trace' = trace \o <<"forward">>
    /\ pc' = "losses"
    /\ UNCHANGED <<cfg, prior_json, global_step, cacheVars, diskVars, params,
                   renderer_training, error, batch, gt_rgb, origin_gt_rgb, gt_patch,
                   full_out, guidance_input,
                   guidance_out, loss_D, grid>>

\* line 348: the training render raises
forward_raises ==
    /\ pc = "forward"
    /\ trace' = trace \o <<"forward">>
    /\ Raise("render")
    /\ UNCHANGED <<cfg, prior_json, global_step, cacheVars, diskVars, params,
                   renderer_training>>

\* lines 350-407: loss_l1 against the spliced frame; loss_G_l1, loss_G_p and
\* loss_G_dis of out["refine"] against gt_rgb.
losses ==
    /\ pc = "losses"
    /\ guidance_out' = [G_target |-> gt_rgb, l1_target |-> origin_gt_rgb.img,
                        refine |-> out.refine]
    /\ trace' = trace \o <<"generator_loss">>
    /\ pc' = "backward_l1"
    /\ UNCHANGED <<cfg, prior_json, global_step, cacheVars, diskVars, params,
                   renderer_training, error, batch, gt_rgb, origin_gt_rgb, gt_patch,
                   full_out, guidance_input,
                   out, loss_D, grid>>

\* mutant: the density-control update is left out
backward_l1_no_update ==
    /\ pc = "backward_l1"
    /\ trace' = trace \o <<"loss_l1.backward">>
    /\ pc' = "backward"
    /\ UNCHANGED <<cfg, prior_json, global_step, cacheVars, diskVars, params,
                   renderer_training, error, localVars>>

\* line 409: loss_l1.backward(retain_graph=True)
backward_l1 ==
    /\ pc = "backward_l1"
    /\ trace' = trace \o <<"loss_l1.backward">>
    /\ pc' = "update_states"
    /\ UNCHANGED <<cfg, prior_json, global_step, cacheVars, diskVars, params,
                   renderer_training, error, localVars>>

\* lines 410-417: self.geometry.update_states(iteration, ...)
update_states ==
    /\ pc = "update_states"
    /\ trace' = trace \o <<"update_states">>
    /\ pc' = "backward"
    /\ UNCHANGED <<cfg, prior_json, global_step, cacheVars, diskVars, params,
                   renderer_training, error, localVars>>

\* line 418: loss.backward()
backward ==
    /\ pc = "backward"
    /\ trace' = trace \o <<"loss.backward">>
    /\ pc' = "opt_step"
    /\ UNCHANGED <<cfg, prior_json, global_step, cacheVars, diskVars, params,
                   renderer_training, error, localVars>>

\* mutant: the generator optimizer is stepped after the discriminator loss
opt_step_geometry_only ==
    /\ pc = "opt_step"
    /\ params' = [params EXCEPT !.geometry = @ + 1]
    /\ trace' = trace \o <<"g_opt.step", "g_opt.zero_grad">>
    /\ pc' = "discriminator_loss"
    /\ UNCHANGED <<cfg, prior_json, global_step, cacheVars, diskVars,
                   renderer_training, error, localVars>>

\* lines 419-422: g_opt (geometry) and d_opt (generator) step, then zero
opt_step ==
    /\ pc = "opt_step"
    /\ params' = [params EXCEPT !.geometry = @ + 1, !.generator = @ + 1]
    /\ trace' = trace \o <<"g_opt.step", "d_opt.step", "g_opt.zero_grad", "d_opt.zero_grad">>
    /\ pc' = "discriminator_loss"
    /\ UNCHANGED <<cfg, prior_json, global_step, cacheVars, diskVars,
                   renderer_training, error, localVars>>

\* mutant: the discriminator is trained against the unedited batch image
DiscTargetRaw == [src |-> "batch", step |-> 0, size |-> NoSize, patch |-> NoPatch]

\* mutant: the discriminator sees a second render, made after d_opt.step
DiscInputFresh == params.generator

\* lines 426-427: the arguments of discriminator_loss
DiscTarget == gt_rgb
DiscInput == out.refine

\* lines 424-430: loss_D of out["refine"] against gt_rgb
discriminator_loss ==
    /\ pc = "discriminator_loss"
    /\ loss_D' = [target |-> DiscTarget, refine |-> DiscInput]
    /\ trace' = trace \o <<"discriminator_loss">>
    /\ pc' = "backward_D"
    /\ UNCHANGED <<cfg, prior_json, global_step, cacheVars, diskVars, params,
                   renderer_training, error, batch, gt_rgb, origin_gt_rgb, gt_patch,
                   full_out, guidance_input,
                   out, guidance_out, grid>>

\* line 431: loss_D.backward()
backward_D ==
    /\ pc = "backward_D"
    /\ trace' = trace \o <<"loss_D.backward">>
    /\ pc' = "dis_opt_step"
    /\ UNCHANGED <<cfg, prior_json, global_step, cacheVars, diskVars, params,
                   renderer_training, error, localVars>>

\* lines 432-433: dis_opt (discriminator) steps, then zeroes
dis_opt_step ==
    /\ pc = "dis_opt_step"
    /\ params' = [params EXCEPT !.discriminator = @ + 1]
    /\ trace' = trace \o <<"dis_opt.step", "dis_opt.zero_grad">>
    /\ pc' = "return"
    /\ UNCHANGED <<cfg, prior_json, global_step, cacheVars, diskVars,
                   renderer_training, error, localVars>>

\* line 435: the step returns and the trainer advances its step counter
training_step_return ==
    /\ pc = "return"
    /\ \E k \in Advances : global_step' = global_step + k
    /\ trace' = <<>>
    /\ ClearFrame
    /\ pc' = "idle"
    /\ UNCHANGED <<cfg, prior_json, cacheVars, diskVars, params, renderer_training, error>>

\* --------------------------------------------------- validation_step, test_step
\* mutant: the comparison target is always the raw ground truth
ValidationTargetRaw(i, h, w) == [kind |-> "gt_rgb", img |-> NoImg]

\* the comparison target of lines 444-450
ValidationTarget(i, h, w) ==
    IF i \in DOMAIN edit_frames
    THEN [kind |-> "edit", img |-> Resize(edit_frames[i], h, w)]
    ELSE [kind |-> "gt_rgb", img |-> NoImg]

\* the images of lines 454-474 and 487-500
Grid(name, b) ==
    IF name = "validation_step"
    THEN <<[kind |-> "render", img |-> NoImg],
           [kind |-> "refine", img |-> NoImg],
           ValidationTarget(b.index, b.H, b.W)>>
    ELSE <<[kind |-> "render", img |-> NoImg],
           [kind |-> "refine", img |-> NoImg]>>

\* lines 438-477 and 483-503: select the patch, render, save the grid
eval_step(name, b) ==
    /\ pc = "idle"
    /\ global_step < MaxStep
    /\ ValidBatch(b)
    /\ batch' = Patched(b)
    /\ out' = Render(Patched(b))
    /\ grid' = Grid(name, b)
    /\ trace' = <<name, "forward", "save_image_grid">>
    /\ pc' = "eval_return"
    /\ UNCHANGED <<cfg, prior_json, global_step, cacheVars, diskVars, params,
                   renderer_training, error, gt_rgb, origin_gt_rgb, gt_patch,
                   full_out, guidance_input,
                   guidance_out, loss_D>>

\* lines 439, 484: the render raises
eval_step_raises(name, b) ==
    /\ pc = "idle"
    /\ global_step < MaxStep
    /\ ValidBatch(b)
    /\ trace' = <<name, "forward">>
    /\ Raise("render")
    /\ UNCHANGED <<cfg, prior_json, global_step, cacheVars, diskVars, params,
                   renderer_training>>

validation_step(b) ==
    \/ eval_step("validation_step", b)
    \/ eval_step_raises("validation_step", b)
test_step(b) ==
    \/ eval_step("test_step", b)
    \/ eval_step_raises("test_step", b)

\* the validation or test step returns
eval_step_return ==
    /\ pc = "eval_return"
    /\ trace' = <<>>
    /\ ClearFrame
    /\ pc' = "idle"
    /\ UNCHANGED <<cfg, prior_json, global_step, cacheVars, diskVars, params,
                   renderer_training, error>>

\* ------------------------------------------------------------- specification
Next ==
    \/ \E b \in BatchInputs : training_step(b)
    \/ \E d \in RefineExcess : forward_aux(RefineOutput(d))
    \/ forward_aux_raises
    \/ guidance
    \/ guidance_raises
    \/ fetch
    \/ fetch_raises
    \/ forward
    \/ forward_raises
    \/ losses
    \/ backward_l1
    \/ update_states
    \/ backward
    \/ opt_step
    \/ discriminator_loss
    \/ backward_D
    \/ dis_opt_step
    \/ training_step_return
    \/ \E b \in BatchInputs : validation_step(b)
    \/ \E b \in BatchInputs : test_step(b)
    \/ eval_step_return

Spec == Init /\ [][Next]_vars

\* training, validation and test on masked frames, with a refined output of
\* the patch size or larger
NextEdit ==
    \/ \E b \in EditBatches : training_step(b)
    \/ \E d \in EditRefineExcess : forward_aux(RefineOutput(d))
    \/ forward_aux_raises
    \/ guidance
    \/ guidance_raises
    \/ fetch
    \/ fetch_raises
    \/ forward
    \/ forward_raises
    \/ losses
    \/ backward_l1
    \/ update_states
    \/ backward
    \/ opt_step
    \/ discriminator_loss
    \/ backward_D
    \/ dis_opt_step
    \/ training_step_return
    \/ \E b \in EditBatches : validation_step(b)
    \/ \E b \in EditBatches : test_step(b)
    \/ eval_step_return

SpecEdit == InitEdit /\ [][NextEdit]_vars

\* get_patch on its own, lines 229-252, on every frame size and patch size
get_patch_call(b) ==
    /\ pc = "idle"
    /\ ValidBatch(b)
    /\ batch' = Patched(b)
    /\ UNCHANGED <<cfg, prior_json, global_step, cacheVars, diskVars, params,
                   renderer_training, pc, error, trace, gt_rgb, origin_gt_rgb,
                   gt_patch, full_out, guidance_input, out,
                   guidance_out, loss_D, grid>>

NextPatch == \E b \in AllBatches : get_patch_call(b)

SpecPatch == InitPatch /\ [][NextPatch]_vars

\* lines 110-166 in a fresh system whose cfg.edit_path is the directory the
\* run so far has saved its edits in: the run is resumed from its manifest.
resume ==
    /\ pc \in {"idle", "aborted"}
    /\ prior_json = NoFile
    /\ saved_json # NoFile
    /\ prior_json' = saved_json
    /\ edit_frames' = LoadedFrames(saved_json)
    /\ edit_patches' = LoadedPatches(saved_json)
    /\ edit_json' = EmptyDict
    /\ saved_json' = NoFile
    /\ saved_imgs' = EmptyDict
    /\ global_step' = 0
    /\ renderer_training' = TRUE
    /\ params' = [geometry |-> 0, generator |-> 0, discriminator |-> 0]
    /\ pc' = "idle"
    /\ error' = "none"
    /\ trace' = <<>>
    /\ ClearFrame
    /\ UNCHANGED cfg

\* a run that began with an empty cache and is resumed once
NextResume ==
    \/ \E b \in BatchInputs : training_step(b)
    \/ \E d \in RefineExcess : forward_aux(RefineOutput(d))
    \/ forward_aux_raises
    \/ guidance
    \/ guidance_raises
    \/ fetch
    \/ forward
    \/ forward_raises
    \/ losses
    \/ backward_l1
    \/ update_states
    \/ backward
    \/ opt_step
    \/ discriminator_loss
    \/ backward_D
    \/ dis_opt_step
    \/ training_step_return
    \/ resume

SpecResume == InitResume /\ [][NextResume]_vars

\* validation and test steps on the cameras of every pair of focal terms
CameraBatches ==
    {[index |-> i, H |-> MaxDim, W |-> MaxDim, bbox |-> NoBBox, frame_mask |-> NoMask,
      gt_row |-> [k \in 1..MaxDim |-> 0], proj |-> P] :
        i \in Frames, P \in Focals \X Focals}

NextCamera ==
    \/ \E b \in CameraBatches : validation_step(b)
    \/ \E b \in CameraBatches : test_step(b)
    \/ eval_step_return

SpecCamera == InitEdit /\ [][NextCamera]_vars

\* The compositor on its own, lines 280-316, at equal resolutions: the frame
\* is as large as the patch and as the refined output, with every mask,
\* original row and refined row.
ComposeBatches ==
    {[index |-> 0, H |-> MaxDim - 1, W |-> MaxDim - 1, bbox |-> NoBBox,
      frame_mask |-> m, gt_row |-> g, proj |-> UnitProj] :
        m \in {NoMask} \cup Rows(MaxDim - 1), g \in Rows(MaxDim - 1)}

\* one composition in a behaviour, of any frame and any refined row
compose_call ==
    /\ pc = "idle"
    /\ guidance_input = NoInput
    /\ \E b \in ComposeBatches, refine \in Rows(MaxDim - 1) :
        /\ ValidBatch(b)
        /\ batch' = Patched(b)
        /\ full_out' = [refine |-> refine, training |-> renderer_training]
        /\ guidance_input' = Compose(Patched(b), refine)
    /\ UNCHANGED <<cfg, prior_json, global_step, cacheVars, diskVars, params,
                   renderer_training, pc, error, trace, gt_rgb, origin_gt_rgb,
                   gt_patch, out, guidance_out, loss_D, grid>>

NextCompose == compose_call

SpecCompose == InitCompose /\ [][NextCompose]_vars

\* ================================================================== claims
Events == {trace[k] : k \in 1..Len(trace)}
Pos(e) == {k \in 1..Len(trace) : trace[k] = e}
Before(a, b) == \A k \in Pos(b) : \E j \in Pos(a) : j < k
InTraining == pc \in {"forward_aux", "guidance", "fetch", "forward", "losses",
                      "backward_l1", "update_states", "backward", "opt_step",
                      "discriminator_loss", "backward_D", "dis_opt_step", "return"}
AfterFetch == pc \in {"forward", "losses", "backward_l1", "update_states", "backward",
                      "opt_step", "discriminator_loss", "backward_D", "dis_opt_step",
                      "return"}
AfterDiscLoss == pc \in {"backward_D", "dis_opt_step", "return"}

\* The edit condition as section 4.3 states it: editing enabled and started,
\* and the frame has no entry or the step is a multiple of the interval.
EditCondition(i, t) ==
    /\ cfg.per_editing_step > 0
    /\ t >= cfg.start_editing_step
    /\ (i \notin DOMAIN edit_frames \/ t % cfg.per_editing_step = 0)

\* C1: for every frame size H x W, patch size S <= min(H, W) and bounding box
\* inside the frame (or none), get_patch returns 0 <= patch_x <= W-S and
\* 0 <= patch_y <= H-S.
C1_PatchInsideFrame ==
    batch # NoBatch =>
        /\ 0 <= batch.patch_x /\ batch.patch_x <= batch.W - batch.patch_S
        /\ 0 <= batch.patch_y /\ batch.patch_y <= batch.H - batch.patch_S

\* C2: a training step on frame i at global step t enters the editing branch
\* (and so invokes guidance, whose return records the entry of i) if and only
\* if the edit condition holds; guidance is invoked at most once, and the
\* entry it records is the one of this step.
C2_EditIffNeeded ==
    /\ pc \in {"forward_aux", "guidance"} => EditCondition(batch.index, global_step)
    /\ (pc = "fetch" /\ "guidance" \notin Events) =>
            ~EditCondition(batch.index, global_step)
    /\ (pc = "fetch" /\ "guidance" \in Events) =>
            /\ batch.index \in DOMAIN edit_frames
            /\ edit_frames[batch.index] = EditImage(global_step)
            /\ edit_patches[batch.index] = <<batch.patch_x, batch.patch_y>>
    /\ InTraining => Cardinality(Pos("guidance")) <= 1

\* C2 witness: editing is active, the frame was edited earlier in this run,
\* the step is not a multiple of the interval, and the step goes on unedited.
C2_Witness ==
    /\ pc = "fetch"
    /\ EditingActive(global_step)
    /\ global_step % cfg.per_editing_step # 0
    /\ batch.index \in DOMAIN edit_frames
    /\ edit_frames[batch.index].src = "guidance"
    /\ "guidance" \notin Events

\* C3: a training step never fetches a cache entry that does not exist; a
\* step on a frame with no entry while editing is not active runs to
\* completion without a missing-entry error.
C3_NoMissingEntryFetch ==
    ~(pc = "aborted" /\ error = "KeyError")

\* C4: in a training step executed while editing is active, the trained frame
\* has its cache entry when the loss terms are computed: the frame is a key of
\* edit_frames and of edit_patches when the step reaches the fetch of line
\* 341 (so the fetch does not raise) and from there to the step's return.
C4_ActiveStepHasEntry ==
    (EditingActive(global_step) /\ (pc = "fetch" \/ AfterFetch)) =>
        /\ batch.index \in DOMAIN edit_frames
        /\ batch.index \in DOMAIN edit_patches

\* C4 witness: the losses are about to be computed on a frame whose entry was
\* created in this very step.
C4_Witness ==
    /\ pc = "losses"
    /\ EditingActive(global_step)
    /\ "record" \in Events
    /\ edit_frames[batch.index] = EditImage(global_step)

\* C5: the cached image is spliced at the patch coordinates stored in the
\* frame's cache entry.
C5_SpliceAtCachedPatch ==
    AfterFetch => origin_gt_rgb.splice = edit_patches[batch.index]

\* C6: the generator losses and the discriminator loss of a step are computed
\* against the same target, the frame's cache entry, read after the record of
\* the same step when there is one.
C6_SameTarget ==
    /\ (InTraining /\ "generator_loss" \in Events) =>
            guidance_out.G_target = edit_frames[batch.index]
    /\ AfterDiscLoss =>
            /\ loss_D.target = guidance_out.G_target
            /\ loss_D.target = edit_frames[batch.index]
    /\ (InTraining /\ "record" \in Events) =>
            /\ Before("record", "fetch")
            /\ Before("record", "generator_loss")
            /\ AfterDiscLoss => loss_D.target = EditImage(global_step)

\* C6 witness: a step that replaced an entry loaded at construction has
\* computed both losses.
C6_Witness ==
    /\ pc = "return"
    /\ "record" \in Events
    /\ prior_json # NoFile
    /\ Str(batch.index) \in DOMAIN prior_json

\* C7: update_states is called exactly once per training step, after the
\* backward pass of loss_l1 and before the backward pass of the weighted loss
\* and before any optimizer step.
C7_UpdateStatesOrder ==
    InTraining =>
        /\ Cardinality(Pos("update_states")) <= 1
        /\ Before("loss_l1.backward", "update_states")
        /\ Before("update_states", "loss.backward")
        /\ Before("update_states", "g_opt.step")
        /\ Before("update_states", "d_opt.step")
        /\ Before("update_states", "dis_opt.step")
        /\ pc = "return" => Cardinality(Pos("update_states")) = 1

\* C7 witness: a training step has run to its return.
C7_Witness ==
    /\ pc = "return"
    /\ "update_states" \in Events
    /\ "dis_opt.step" \in Events

OptimizerEvents == {"g_opt.step", "d_opt.step", "g_opt.zero_grad", "d_opt.zero_grad",
                    "dis_opt.step", "dis_opt.zero_grad"}
OptimizerOrder == <<"g_opt.step", "d_opt.step", "g_opt.zero_grad", "d_opt.zero_grad",
                    "dis_opt.step", "dis_opt.zero_grad">>
OptimizerCalls == SelectSeq(trace, LAMBDA e : e \in OptimizerEvents)

\* C8: in a completed training step each optimizer is stepped once and then
\* zeroed, geometry and generator before the discriminator loss is
\* back-propagated and the discriminator optimizer is stepped.
C8_OptimizerOrder ==
    InTraining =>
        /\ Len(OptimizerCalls) <= Len(OptimizerOrder)
        /\ OptimizerCalls = SubSeq(OptimizerOrder, 1, Len(OptimizerCalls))
        /\ Before("g_opt.zero_grad", "loss_D.backward")
        /\ Before("d_opt.zero_grad", "loss_D.backward")
        /\ Before("loss_D.backward", "dis_opt.step")
        /\ pc = "return" =>
            /\ OptimizerCalls = OptimizerOrder
            /\ params.geometry = out.refine + 1
            /\ params.generator = out.refine + 1
            /\ params.discriminator = out.refine + 1

\* C8 witness: the second training step of a run has run to its return.
C8_Witness ==
    /\ pc = "return"
    /\ params.discriminator = 2

\* C9 (as claimed): the discriminator loss is computed from the generator
\* output produced after the generator optimizer step of the same step.
C9_FreshGeneratorOutput ==
    AfterDiscLoss => loss_D.refine = params.generator

\* C9 (amended): the discriminator loss is computed, after the geometry and
\* generator optimizers are stepped and zeroed, from the output of the step's
\* one training render, made before the generator optimizer step: the output
\* the generator losses were computed from.
C9_TrainingRenderOutput ==
    /\ AfterDiscLoss =>
        /\ loss_D.refine = out.refine
        /\ loss_D.refine = guidance_out.refine
        /\ loss_D.refine + 1 = params.generator
    /\ InTraining =>
        /\ Cardinality({k \in Pos("forward") : \E j \in Pos("fetch") : j < k}) <= 1
        /\ Before("forward", "g_opt.step")
        /\ Before("d_opt.zero_grad", "discriminator_loss")
        /\ \A k \in Pos("forward") : \A j \in Pos("d_opt.step") : k < j

\* C9 witness: the discriminator loss has been computed in a step.
C9_Witness ==
    /\ pc = "backward_D"
    /\ loss_D.refine = out.refine
    /\ params.generator = 1

\* C10: the cache and the manifest change only in the record of the editing
\* branch of a training step whose edit condition holds; validation and test
\* steps change neither and step no optimizer.
C10_OnlyRecordMutates ==
    [][/\ <<edit_frames, edit_patches, edit_json, saved_json, saved_imgs>>'
            # <<edit_frames, edit_patches, edit_json, saved_json, saved_imgs>>
          => /\ pc = "guidance"
             /\ pc' = "fetch"
             /\ EditCondition(batch.index, global_step)
       /\ params' # params => pc \in {"opt_step", "dis_opt_step"}
       /\ (pc = "eval_return" \/ pc' = "eval_return"
            \/ (pc = "idle" /\ pc' = "aborted"))
          => UNCHANGED <<cacheVars, diskVars, params>>
      ]_vars

\* C10 witness: a validation step has saved its grid while the cache and the
\* manifest hold a recorded frame.
C10_Witness ==
    /\ pc = "eval_return"
    /\ trace[1] = "validation_step"
    /\ batch.index \in DOMAIN edit_frames
    /\ saved_json # NoFile

\* C11: a frame that no training step of this run has recorded is in the edit
\* cache exactly when the prior manifest has a record under its stringified
\* index, with the patch coordinates of that record; so after construction the
\* cache holds one entry per manifest key and no other, and it is empty when no
\* edit directory is configured.
C11_CacheIsManifest ==
    /\ DOMAIN edit_frames \subseteq Nat
    /\ DOMAIN edit_patches = DOMAIN edit_frames
    /\ \A i \in Frames : FileName(i) \notin DOMAIN saved_imgs =>
        /\ i \in DOMAIN edit_frames <=>
                (prior_json # NoFile /\ Str(i) \in DOMAIN prior_json)
        /\ i \in DOMAIN edit_frames =>
                /\ edit_patches[i] = prior_json[Str(i)].patches
                /\ edit_frames[i].src = "file"
    /\ (saved_imgs = EmptyDict /\ prior_json # NoFile) =>
            Cardinality(DOMAIN edit_frames) = Cardinality(DOMAIN prior_json)
    /\ (saved_imgs = EmptyDict /\ prior_json = NoFile) =>
            (edit_frames = EmptyDict /\ edit_patches = EmptyDict)

\* C11 witness: construction has loaded a manifest of two or more records.
C11_Witness ==
    /\ pc = "idle"
    /\ global_step = 0
    /\ saved_imgs = EmptyDict
    /\ prior_json # NoFile
    /\ Cardinality(DOMAIN prior_json) >= 2
    /\ Cardinality(DOMAIN edit_frames) >= 2

C14_MaskedComposite ==
    (guidance_input # NoInput /\ Len(full_out.refine) = batch.patch_S
        /\ batch.patch_x = 0 /\ batch.W = batch.patch_S) =>
        LET r == full_out.refine
            o == batch.gt_row
            m == batch.frame_mask
            g == guidance_input
        IN  /\ m = NoMask => g.channels = 3
            /\ m # NoMask =>
                /\ g.channels = 4
                /\ Len(g.rgb) = batch.patch_S
                /\ Len(g.alpha) = batch.patch_S
                /\ \A k \in 1..batch.patch_S :
                    /\ g.alpha[k] * MaxLevel = (MaxLevel - m[k]) * g.alpha_den
                    /\ g.rgb[k] * MaxLevel * MaxLevel
                            = (r[k] * m[k] + o[k] * (MaxLevel - m[k])) * g.rgb_den
                    /\ m[k] = MaxLevel => g.rgb[k] * MaxLevel = r[k] * g.rgb_den
                    /\ m[k] = 0 => g.rgb[k] * MaxLevel = o[k] * g.rgb_den

\* C14 witness: a refined patch and an original patch that differ in every
\* pixel were composed under an all-ones mask.
C14_Witness ==
    /\ guidance_input.channels = 4
    /\ batch.frame_mask = [k \in 1..batch.patch_S |-> MaxLevel]
    /\ \A k \in 1..batch.patch_S : full_out.refine[k] # batch.gt_row[k]
    /\ \A k \in 1..batch.patch_S :
            guidance_input.rgb[k] * MaxLevel = full_out.refine[k] * guidance_input.rgb_den

\* C15 (as claimed): a validation step and a test step both save, as the
\* comparison target of the frame, the cached edited image resized to the full
\* frame when the frame has a cache entry and the raw ground truth otherwise.
C15_BothStepsShowTarget ==
    pc = "eval_return" =>
        \E k \in 1..Len(grid) :
            IF batch.index \in DOMAIN edit_frames
            THEN /\ grid[k].kind = "edit"
                 /\ grid[k].img.src = edit_frames[batch.index].src
                 /\ grid[k].img.step = edit_frames[batch.index].step
                 /\ grid[k].img.size = <<batch.H, batch.W>>
            ELSE grid[k].kind = "gt_rgb"

\* C15 (amended): a validation step saves the render, the refined output and,
\* as the comparison target, the cached edited image resized to the full frame
\* when the frame has a cache entry and the raw ground truth otherwise; a test
\* step saves the render and the refined output only, with no comparison
\* target.
C15_ValidationShowsTarget ==
    /\ (pc = "eval_return" /\ trace[1] = "validation_step") =>
        /\ Len(grid) = 3
        /\ grid[1].kind = "render"
        /\ grid[2].kind = "refine"
        /\ IF batch.index \in DOMAIN edit_frames
           THEN /\ grid[3].kind = "edit"
                /\ grid[3].img.src = edit_frames[batch.index].src
                /\ grid[3].img.step = edit_frames[batch.index].step
                /\ grid[3].img.size = <<batch.H, batch.W>>
           ELSE grid[3].kind = "gt_rgb"
    /\ (pc = "eval_return" /\ trace[1] = "test_step") =>
        /\ Len(grid) = 2
        /\ grid[1].kind = "render"
        /\ grid[2].kind = "refine"

\* C15 witness: a validation step has saved, resized to the full frame, an
\* image that a training step of this run recorded at another size.
C15_Witness ==
    /\ pc = "eval_return"
    /\ trace[1] = "validation_step"
    /\ batch.index \in DOMAIN edit_frames
    /\ edit_frames[batch.index].src = "guidance"
    /\ edit_frames[batch.index].size # <<batch.H, batch.W>>
    /\ grid[3].img.size = <<batch.H, batch.W>>

\* C16: a step whose camera has a zero focal term P[0, 0] or P[1, 1] ends in
\* an error before any render is issued and no field of view is produced for
\* it: a step that has rendered had a camera with both focal terms non-zero.
C16_DegenerateCameraFatal ==
    (pc = "eval_return" /\ out # NoOut) =>
        /\ batch.proj[1] # 0
        /\ batch.proj[2] # 0

\* C17: the auxiliary render of the editing branch is made with the renderer
\* in evaluation mode and the renderer is back in training mode when guidance
\* is invoked; the training render of every step is made in training mode,
\* and the renderer is in training mode after every completed step and after
\* a step aborted by a guidance failure.
C17_RendererModes ==
    /\ pc = "forward_aux" => ~renderer_training
    /\ (InTraining /\ full_out # NoFullOut) => ~full_out.training
    /\ pc \in {"guidance", "fetch", "forward"} => renderer_training
    /\ (InTraining /\ "guidance" \in Events) =>
            /\ Before("renderer.eval", "forward")
            /\ Before("renderer.train", "guidance")
    /\ (InTraining /\ out # NoOut) => out.training
    /\ pc \in {"return", "idle"} => renderer_training
    /\ (pc = "aborted" /\ error = "guidance") => renderer_training

\* C17 witness: a step that edited its frame has made both renders and run
\* to its return.
C17_Witness ==
    /\ pc = "return"
    /\ "renderer.eval" \in Events
    /\ ~full_out.training
    /\ out.training
    /\ renderer_training

\* C18: in every reachable state, a step aborted by a render or guidance
\* failure included, a frame has a stored image exactly when it has stored
\* patch coordinates, and the coordinates are those of the patch the stored
\* image is an edit of, or those the manifest gave with the image loaded.
C18_EntriesWhole ==
    /\ DOMAIN edit_frames = DOMAIN edit_patches
    /\ \A i \in DOMAIN edit_frames :
        /\ edit_frames[i].src \in {"guidance", "file"}
        /\ edit_frames[i].src = "guidance" => edit_patches[i] = edit_frames[i].patch
        /\ edit_frames[i].src = "file" =>
                /\ prior_json # NoFile
                /\ Str(i) \in DOMAIN prior_json
                /\ edit_patches[i] = prior_json[Str(i)].patches

\* C18 witness: a later step's guidance call has failed on a frame whose
\* loaded entry an earlier step had replaced by an edit at another patch.
C18_Witness ==
    /\ pc = "aborted"
    /\ error \in {"guidance", "render"}
    /\ \E i \in DOMAIN edit_frames :
        /\ edit_frames[i].src = "guidance"
        /\ prior_json # NoFile
        /\ Str(i) \in DOMAIN prior_json
        /\ edit_patches[i] # prior_json[Str(i)].patches

\* C19: once a record has been made, the manifest on disk has one record for
\* every frame in the edit cache, the frames loaded at construction and not
\* edited since included, each with the frame's file path and patch
\* coordinates.
C19_ManifestCoversCache ==
    saved_json # NoFile =>
        /\ Cardinality(DOMAIN saved_json) = Cardinality(DOMAIN edit_frames)
        /\ \A i \in DOMAIN edit_frames :
            /\ Str(i) \in DOMAIN saved_json
            /\ saved_json[Str(i)].file_path = FileName(i)
            /\ saved_json[Str(i)].patches = edit_patches[i]

\* C20: when a run that began with an empty cache is resumed from the
\* manifest it persisted, the fresh system's cache has the frame indices of
\* the run's cache, as integers, and the same patch coordinates per frame; in
\* the resumed run a frame of that manifest is edited only at a step that is
\* a multiple of the edit interval.
C20_ManifestRoundTrip ==
    [][/\ (prior_json = NoFile /\ prior_json' # NoFile) =>
            /\ DOMAIN edit_frames' = DOMAIN edit_frames
            /\ DOMAIN edit_frames' \subseteq Nat
            /\ DOMAIN edit_patches' = DOMAIN edit_patches
            /\ \A i \in DOMAIN edit_patches : edit_patches'[i] = edit_patches[i]
       /\ (prior_json' # NoFile /\ pc' \in {"forward_aux", "guidance"}
                /\ Str(batch'.index) \in DOMAIN prior_json') =>
            global_step' % cfg'.per_editing_step = 0
      ]_vars

\* C20 witness: in a resumed run, a training step on a frame of the manifest,
\* at a step that is not a multiple of the interval, goes on without editing;
\* the manifest holds a patch with different coordinates.
C20_Witness ==
    /\ prior_json # NoFile
    /\ pc = "forward"
    /\ "guidance" \notin Events
    /\ global_step % cfg.per_editing_step # 0
    /\ Str(batch.index) \in DOMAIN prior_json
    /\ \E k \in DOMAIN prior_json : prior_json[k].patches[1] # prior_json[k].patches[2]

====
